---- MODULE Spec2Model ----
(***************************************************************************)
(* Sungan River water-quality analyzer (src/sungan/analyzer.py) and the    *)
(* dashboard script that drives it (src/app.py).                           *)
(*                                                                         *)
(* Number representation.  The program computes with binary floats; the    *)
(* model computes with exact decimals:                                     *)
(*   - a parameter value (pH, mg/L, NTU) is an integer number of           *)
(*     thousandths (ValScale = 1000), so 7.5 is 7500;                      *)
(*   - a Q-value is an integer number of ten-thousandths (QScale), so 90   *)
(*     is 900000 and 100 - value/10 is exact for every value;              *)
(*   - a weight is an integer number of thousandths (0.27 is 270);         *)
(*   - a WQI score is Q-value * weight, in units of 10^-7 (WScale);        *)
(*   - a distance is a decimal float [m, e] standing for m * 10^e, so      *)
(*     that both 5 km and 1e-105 km are values of the model.               *)
(* math.log and float ** are library functions: over the distances of the  *)
(* model they are given by tables of their values (LnTab, PowTab) plus the *)
(* float overflow rule of ** (OverflowError above the largest double).     *)
(***************************************************************************)
EXTENDS Integers, Sequences, FiniteSets, TLC

VARIABLES
    pc,         \* position of the (single-threaded) caller / script
    call,       \* the analyzer method under call and its arguments
    ret,        \* what the call returned or raised
    distance,   \* app.py:19   sidebar number_input
    batch_text, \* app.py:21   sidebar text_input, a sequence of characters
    clicked,    \* app.py:168  st.button("Run batch from sidebar")
    preds,      \* app.py:35 / app.py:180
    total_wqi,  \* app.py:36 / app.py:181
    rating,     \* app.py:41
    parts,      \* app.py:173
    idx,        \* position of the loop of app.py:175 in parts
    lines,      \* app.py:174
    shown       \* what the batch panel rendered: "nothing", "info" or "table"

vars == <<pc, call, ret, distance, batch_text, clicked, preds, total_wqi,
          rating, parts, idx, lines, shown>>

-----------------------------------------------------------------------------
(* Bounds of the model *)

MaxKm == 12
Spread == 2
GridMax == 130
MaxBig == 8
MaxBatch == 4

-----------------------------------------------------------------------------
(* Scales and arithmetic helpers *)

ValScale == 10 ^ 3
QScale == 10 ^ 4
WeightScale == 10 ^ 3
WScale == QScale * WeightScale

Max(a, b) == IF a >= b THEN a ELSE b

\* Python's int(): truncation toward zero of n / d (d > 0)
Trunc(n, d) == IF n >= 0 THEN n \div d ELSE -((-n) \div d)

Ok(v) == [raised |-> "none", val |-> v]
Raise(kind) == [raised |-> kind, val |-> 0]

-----------------------------------------------------------------------------
(* Distances: decimal floats m * 10^e *)

Dist(m, e) == [m |-> m, e |-> e]
Km(k) == Dist(k, 0)

\* d <= k for an integer k >= 0; a distance with e < -6 has |d| < 1 in the model
DistLeq(d, k) ==
    IF d.e >= 0 THEN d.m * (10 ^ d.e) <= k
    ELSE IF d.e >= -6 THEN d.m <= k * (10 ^ (-d.e))
    ELSE IF d.m > 0 THEN k >= 1 ELSE TRUE

\* c * d in the unit of c, rounded down; below the unit's resolution it is 0
DistTimes(c, d) ==
    IF d.e >= 0 THEN c * d.m * (10 ^ d.e)
    ELSE IF d.e >= -6 THEN (c * d.m) \div (10 ^ (-d.e))
    ELSE 0

\* math.log(k) in thousandths, k = 1..16
LnTab == <<0, 693, 1099, 1386, 1609, 1792, 1946, 2079, 2197, 2303, 2398,
           2485, 2565, 2639, 2708, 2773>>

\* k ** -2.945 in millionths, k = 1..16
PowTab == <<1000000, 129857, 39344, 16863, 8740, 5109, 3245, 2190, 1548,
            1135, 857, 663, 524, 421, 344, 284>>

\* math.log(d) in thousandths: ln(m) + e * ln(10)
math_log(d) == LnTab[d.m] + (d.e * 2302585) \div 1000

\* d ** -2.945 in millionths.  The result exp(-2.945 * ln d) exceeds the largest
\* double (ln = 709.782712...) for d below about 2e-105, and float ** then raises
\* OverflowError.  Distances with e # 0 that do not overflow are outside the model.
float_pow(d) ==
    IF 2945 * (-math_log(d)) > 709782712
    THEN Raise("OverflowError")
    ELSE CASE d.e = 0 -> Ok(PowTab[d.m])

-----------------------------------------------------------------------------
(* SunganRiverWaterQualityAnalyzer.__init__: the constant tables *)

WeightedParams == <<"DO", "pH", "nitrate", "phosphate", "turbidity", "TDS">>

\* the weight table with 0.37 typed for 0.27
weights_mistyped == [DO |-> 370, pH |-> 175, nitrate |-> 159, phosphate |-> 159,
                     turbidity |-> 127, TDS |-> 111]

weights == [DO |-> 270, pH |-> 175, nitrate |-> 159, phosphate |-> 159,
            turbidity |-> 127, TDS |-> 111]

\* (min, max) in thousandths; inf marks float('inf')
Bound(lo, hi) == [min |-> lo, max |-> hi, inf |-> FALSE]
NoMax(lo) == [min |-> lo, max |-> 0, inf |-> TRUE]

standards == [pH |-> Bound(6500, 8500), DO |-> NoMax(5000),
              turbidity |-> Bound(0, 5000), TDS |-> Bound(0, 100000),
              iron |-> Bound(0, 300), phosphate |-> Bound(0, 400),
              nitrate |-> Bound(0, 10000)]

\* the dict in insertion order, which is the order .items() scans
wqi_rating == << <<91, 100, "Excellent Quality">>,
                 <<71, 90, "Good Quality">>,
                 <<51, 70, "Moderate Quality">>,
                 <<26, 50, "Poor Quality">>,
                 <<0, 25, "Very Poor Quality">> >>

-----------------------------------------------------------------------------
(* The regression predictors; values in thousandths *)

ValueErrorIfNotPositive(d, v) ==
    IF DistLeq(d, 0) THEN Raise("ValueError") ELSE v

predict_ph(d) ==
    ValueErrorIfNotPositive(d, Ok(7909 - (DistTimes(28, d))))

predict_turbidity(d) ==
    ValueErrorIfNotPositive(d,
        LET p == float_pow(d)
        IN  IF p.raised # "none" THEN p
            ELSE Ok((755 * p.val) \div 1000 + (873 * p.val) \div 1000000))

predict_tds(d) ==
    ValueErrorIfNotPositive(d, Ok(DistTimes(86240, d) - 82030))

predict_iron(d) ==
    ValueErrorIfNotPositive(d, Ok((12803 * math_log(d)) \div 1000 + 2271))

predict_phosphate(d) ==
    ValueErrorIfNotPositive(d, Ok(DistTimes(79, d) + 958))

predict_nitrate(d) ==
    ValueErrorIfNotPositive(d, Ok(1544 - (550 * math_log(d)) \div 1000))

\* predict_do with the first boundary exclusive
predict_do_strict(d) ==
    IF DistLeq(d, 3) /\ d # Km(3) THEN Ok(8000)
    ELSE IF DistLeq(d, 5) THEN Ok(7450)
    ELSE Ok(8200)

predict_do(d) ==
    IF DistLeq(d, 3) THEN Ok(8000)
    ELSE IF DistLeq(d, 5) THEN Ok(7450)
    ELSE Ok(8200)

\* The dict display evaluates its entries in order; the first one that raises
\* ends the call and no mapping is returned.
predict_all_parameters(d) ==
    LET ph == predict_ph(d)
        do == predict_do(d)
        tu == predict_turbidity(d)
        td == predict_tds(d)
        ir == predict_iron(d)
        po == predict_phosphate(d)
        ni == predict_nitrate(d)
    IN  IF ph.raised # "none" THEN ph
        ELSE IF do.raised # "none" THEN do
        ELSE IF tu.raised # "none" THEN tu
        ELSE IF td.raised # "none" THEN td
        ELSE IF ir.raised # "none" THEN ir
        ELSE IF po.raised # "none" THEN po
        ELSE IF ni.raised # "none" THEN ni
        ELSE Ok([pH |-> ph.val, DO |-> do.val, turbidity |-> tu.val,
                 TDS |-> td.val, iron |-> ir.val, phosphate |-> po.val,
                 nitrate |-> ni.val])

-----------------------------------------------------------------------------
(* get_q_value: value in thousandths, result in ten-thousandths *)

q_DO(value) ==
    IF value >= 7500 THEN 90 * QScale
    ELSE IF value >= 7000 THEN 85 * QScale
    ELSE IF value >= 6500 THEN 80 * QScale
    ELSE IF value >= 6000 THEN 75 * QScale
    ELSE IF value >= 5500 THEN 70 * QScale
    ELSE IF value >= 5000 THEN 65 * QScale
    ELSE Max(0, Trunc(value * 10, ValScale)) * QScale

q_pH(value) ==
    IF 7000 <= value /\ value <= 8000 THEN 90 * QScale
    ELSE IF (6500 <= value /\ value < 7000) \/ (8000 < value /\ value <= 8500)
    THEN 80 * QScale
    ELSE IF (6000 <= value /\ value < 6500) \/ (8500 < value /\ value <= 9000)
    THEN 60 * QScale
    ELSE IF (5500 <= value /\ value < 6000) \/ (9000 < value /\ value <= 9500)
    THEN 40 * QScale
    ELSE 20 * QScale

q_nitrate(value) ==
    IF value <= 1000 THEN 95 * QScale
    ELSE IF value <= 2000 THEN 90 * QScale
    ELSE IF value <= 5000 THEN 80 * QScale
    ELSE IF value <= 7500 THEN 70 * QScale
    ELSE IF value <= 10000 THEN 60 * QScale
    ELSE Max(0, 100 * QScale - (value * 8) * (QScale \div ValScale))

\* q_phosphate with the floor at 0 of the fallback forgotten
q_phosphate_unfloored(value) ==
    IF value <= 100 THEN 95 * QScale
    ELSE IF value <= 200 THEN 90 * QScale
    ELSE IF value <= 400 THEN 80 * QScale
    ELSE IF value <= 800 THEN 60 * QScale
    ELSE IF value <= 1200 THEN 40 * QScale
    ELSE IF value <= 1600 THEN 30 * QScale
    ELSE 100 * QScale - (value * 40) * (QScale \div ValScale)

q_phosphate(value) ==
    IF value <= 100 THEN 95 * QScale
    ELSE IF value <= 200 THEN 90 * QScale
    ELSE IF value <= 400 THEN 80 * QScale
    ELSE IF value <= 800 THEN 60 * QScale
    ELSE IF value <= 1200 THEN 40 * QScale
    ELSE IF value <= 1600 THEN 30 * QScale
    ELSE Max(0, 100 * QScale - (value * 40) * (QScale \div ValScale))

q_turbidity(value) ==
    IF value <= 1000 THEN 95 * QScale
    ELSE IF value <= 5000 THEN 90 * QScale
    ELSE IF value <= 10000 THEN 80 * QScale
    ELSE IF value <= 20000 THEN 70 * QScale
    ELSE IF value <= 50000 THEN 50 * QScale
    ELSE IF value <= 100000 THEN 30 * QScale
    ELSE Max(0, 100 * QScale - value * (QScale \div ValScale))

\* q_TDS with the first bucket written as the range 0 <= value <= 50
q_TDS_ranged(value) ==
    IF 0 <= value /\ value <= 50000 THEN 95 * QScale
    ELSE IF value <= 100000 THEN 85 * QScale
    ELSE IF value <= 200000 THEN 75 * QScale
    ELSE IF value <= 300000 THEN 65 * QScale
    ELSE IF value <= 400000 THEN 50 * QScale
    ELSE IF value <= 500000 THEN 35 * QScale
    ELSE Max(0, 100 * QScale - value)

\* value / 10 in ten-thousandths is the value in thousandths
q_TDS(value) ==
    IF value <= 50000 THEN 95 * QScale
    ELSE IF value <= 100000 THEN 85 * QScale
    ELSE IF value <= 200000 THEN 75 * QScale
    ELSE IF value <= 300000 THEN 65 * QScale
    ELSE IF value <= 400000 THEN 50 * QScale
    ELSE IF value <= 500000 THEN 35 * QScale
    ELSE Max(0, 100 * QScale - value)

get_q_value(parameter, value) ==
    IF parameter = "DO" THEN q_DO(value)
    ELSE IF parameter = "pH" THEN q_pH(value)
    ELSE IF parameter = "nitrate" THEN q_nitrate(value)
    ELSE IF parameter = "phosphate" THEN q_phosphate(value)
    ELSE IF parameter = "turbidity" THEN q_turbidity(value)
    ELSE IF parameter = "TDS" THEN q_TDS(value)
    ELSE 50 * QScale

-----------------------------------------------------------------------------
(* get_wqi_rating: the score in units of 10^-7 *)

\* InBand with each band extended up to the next one, closing the gaps
InBand_halfopen(band, wqi_score) ==
    band[1] * WScale <= wqi_score /\ wqi_score < (band[2] + 1) * WScale

InBand(band, wqi_score) ==
    band[1] * WScale <= wqi_score /\ wqi_score <= band[2] * WScale

\* the for loop over .items(): the first band in table order that contains the score
RECURSIVE RatingFrom(_, _)
RatingFrom(i, wqi_score) ==
    IF i > Len(wqi_rating) THEN "Undefined"
    ELSE IF InBand(wqi_rating[i], wqi_score) THEN wqi_rating[i][3]
    ELSE RatingFrom(i + 1, wqi_score)

get_wqi_rating(wqi_score) == RatingFrom(1, wqi_score)

-----------------------------------------------------------------------------
(* assess_parameter_quality *)

\* WithinStd with the maximum exclusive
WithinStd_strict(std, value) ==
    std.min <= value /\ (std.inf \/ value < std.max)

WithinStd(std, value) ==
    std.min <= value /\ (std.inf \/ value <= std.max)

assess_parameter_quality(parameter, value) ==
    IF parameter \in DOMAIN standards
    THEN IF WithinStd(standards[parameter], value)
         THEN <<"Within Standard", "check">>
         ELSE <<"Exceeds Standard", "cross">>
    ELSE <<"No Standard", "-">>

-----------------------------------------------------------------------------
(* The WQI aggregation loop of app.py: for p, w in weights.items() *)

RECURSIVE WeightedSum(_, _)
WeightedSum(i, q) ==
    IF i > Len(WeightedParams) THEN 0
    ELSE q[WeightedParams[i]] * weights[WeightedParams[i]] + WeightedSum(i + 1, q)

QValues(p) == [k \in {WeightedParams[i] : i \in 1..Len(WeightedParams)} |->
                  get_q_value(k, p[k])]

Aggregate(p) == WeightedSum(1, QValues(p))

-----------------------------------------------------------------------------
(* Inputs of the calls *)

Parameters == {"pH", "DO", "turbidity", "TDS", "iron", "phosphate", "nitrate"}
Scored == {"DO", "pH", "nitrate", "phosphate", "turbidity", "TDS"}
Pollutants == {"nitrate", "phosphate", "turbidity", "TDS"}
ParameterNames == Parameters \cup {"salinity"}

\* a positive distance below the range where d ** -2.945 is a double
Tiny == Dist(1, 0 - 105)

\* -MaxKm .. MaxKm km, the two step boundaries of DO just passed, and Tiny
DoDistances ==
    {Km(k) : k \in (0 - MaxKm)..MaxKm} \cup {Dist(301, 0 - 2), Dist(501, 0 - 2), Tiny}

PredictDistances == {Km(k) : k \in (0 - MaxKm)..MaxKm} \cup {Tiny}

\* every threshold of get_q_value and of the standards table, in thousandths
Thresholds ==
    {0, 100, 200, 300, 400, 800, 1000, 1200, 1600, 2000, 5000, 5500, 6000, 6500,
     7000, 7500, 8000, 8500, 9000, 9500, 10000, 20000, 50000, 100000, 200000,
     300000, 400000, 500000}

BigStep == 250 * ValScale

BigValues == {k * BigStep : k \in (0 - MaxBig)..MaxBig}

\* around every threshold, a grid of tenths around zero, and large magnitudes
ValueProbes ==
    {t + k : t \in Thresholds, k \in (0 - Spread)..Spread}
      \cup {k * (ValScale \div 10) : k \in (0 - GridMax)..GridMax}
      \cup BigValues

PairProbes == {t + k : t \in Thresholds, k \in {0 - 1, 0, 1}} \cup BigValues

\* every whole and half score from -1 to 101.5, and its two neighbours
ScoreProbes ==
    {b * WScale + h * (WScale \div 2) + j : b \in (0 - 1)..101, h \in 0..1, j \in (0 - 1)..1}

\* predicted values per weighted parameter: every bucket of its table
AggValues ==
    [DO |-> {0 - 1000, 40, 4250, 5200, 6700, 8000},
     pH |-> {0 - 1000, 5700, 6200, 7500, 8300, 10000},
     nitrate |-> {0 - 1000, 500, 1500, 7000, 11000, 50000},
     phosphate |-> {0 - 1000, 50, 150, 1000, 1700, 3000},
     turbidity |-> {0 - 1000, 500, 3000, 30000, 70000, 200000},
     TDS |-> {0 - 1000, 20000, 250000, 450000, 600000, 2000000}]

PredMappings ==
    [DO : AggValues.DO, pH : AggValues.pH, nitrate : AggValues.nitrate,
     phosphate : AggValues.phosphate, turbidity : AggValues.turbidity,
     TDS : AggValues.TDS, iron : {0}]

-----------------------------------------------------------------------------
(* State machine of the analyzer's methods, each called once from idle *)

appVars == <<distance, batch_text, clicked, parts, idx, lines, shown>>

\* the method called and its arguments; an argument the method lacks is "" or 0
Args(fn, parameter, value, value2, d) ==
    [fn |-> fn, parameter |-> parameter, value |-> value, value2 |-> value2, d |-> d]

\* what the call raised or returned: a number (val), a second number of a pair of
\* calls (val2), a text with its symbol, or a mapping
Result(raised, val, val2, text, symbol, map) ==
    [raised |-> raised, val |-> val, val2 |-> val2, text |-> text,
     symbol |-> symbol, map |-> map]

NoMap == [p \in {} |-> 0]

NoCall == Args("none", "", 0, 0, Km(0))

Init ==
    /\ pc = "idle"
    /\ call = NoCall
    /\ ret = Result("none", 0, 0, "", "", NoMap)
    /\ distance = Km(0)
    /\ batch_text = <<>>
    /\ clicked = FALSE
    /\ preds = NoMap
    /\ total_wqi = 0
    /\ rating = ""
    /\ parts = <<>>
    /\ idx = 0
    /\ lines = <<>>
    /\ shown = "nothing"

Returned(c, r) ==
    /\ call' = c
    /\ ret' = r
    /\ pc' = "returned"
    /\ UNCHANGED <<preds, total_wqi, rating>>
    /\ UNCHANGED appVars

CallPredictDo ==
    /\ pc = "idle"
    /\ \E d \in DoDistances :
          Returned(Args("predict_do", "", 0, 0, d),
                   Result(predict_do(d).raised, predict_do(d).val, 0, "", "", NoMap))

CallPredictAll ==
    /\ pc = "idle"
    /\ \E d \in PredictDistances :
          LET r == predict_all_parameters(d)
          IN  Returned(Args("predict_all_parameters", "", 0, 0, d),
                       Result(r.raised, 0, 0, "", "",
                              IF r.raised = "none" THEN r.val ELSE NoMap))

CallGetQValue ==
    /\ pc = "idle"
    /\ \E parameter \in ParameterNames, value \in ValueProbes :
          Returned(Args("get_q_value", parameter, value, 0, Km(0)),
                   Result("none", get_q_value(parameter, value), 0, "", "", NoMap))

\* two calls for the same parameter, the second with the larger value
CallGetQValueTwice ==
    /\ pc = "idle"
    /\ \E parameter \in Pollutants, a \in PairProbes, b \in PairProbes :
          /\ a <= b
          /\ Returned(Args("get_q_value_twice", parameter, a, b, Km(0)),
                      Result("none", get_q_value(parameter, a),
                             get_q_value(parameter, b), "", "", NoMap))

CallGetWqiRating ==
    /\ pc = "idle"
    /\ \E wqi_score \in ScoreProbes :
          Returned(Args("get_wqi_rating", "", wqi_score, 0, Km(0)),
                   Result("none", 0, 0, get_wqi_rating(wqi_score), "", NoMap))

CallAssess ==
    /\ pc = "idle"
    /\ \E parameter \in ParameterNames, value \in ValueProbes :
          LET r == assess_parameter_quality(parameter, value)
          IN  Returned(Args("assess_parameter_quality", parameter, value, 0, Km(0)),
                       Result("none", 0, 0, r[1], r[2], NoMap))

\* app.py:36-41 on a mapping of predictions
CallAggregate ==
    /\ pc = "idle"
    /\ \E p \in PredMappings :
          /\ preds' = p
          /\ total_wqi' = Aggregate(p)
          /\ rating' = get_wqi_rating(Aggregate(p))
    /\ call' = Args("aggregate", "", 0, 0, Km(0))
    /\ pc' = "aggregated"
    /\ UNCHANGED ret
    /\ UNCHANGED appVars

Next ==
    \/ CallPredictDo
    \/ CallPredictAll
    \/ CallGetQValue
    \/ CallGetQValueTwice
    \/ CallGetWqiRating
    \/ CallAssess
    \/ CallAggregate

Spec == Init /\ [][Next]_vars

-----------------------------------------------------------------------------
(* Strings of the dashboard: sequences of one-character strings *)

Digits == {"0", "1", "2", "3", "4", "5", "6", "7", "8", "9"}

DigitValue(c) ==
    CASE c = "0" -> 0 [] c = "1" -> 1 [] c = "2" -> 2 [] c = "3" -> 3
      [] c = "4" -> 4 [] c = "5" -> 5 [] c = "6" -> 6 [] c = "7" -> 7
      [] c = "8" -> 8 [] c = "9" -> 9

\* str.strip(): leading and trailing blanks removed
RECURSIVE StripLeft(_)
StripLeft(s) ==
    IF s # <<>> /\ Head(s) = " " THEN StripLeft(Tail(s)) ELSE s

RECURSIVE StripRight(_)
StripRight(s) ==
    IF s # <<>> /\ s[Len(s)] = " " THEN StripRight(SubSeq(s, 1, Len(s) - 1)) ELSE s

Strip(s) == StripRight(StripLeft(s))

\* str.split(","): the pieces between the commas, empty pieces kept
RECURSIVE SplitFrom(_, _)
SplitFrom(s, piece) ==
    IF s = <<>> THEN <<piece>>
    ELSE IF Head(s) = "," THEN <<piece>> \o SplitFrom(Tail(s), <<>>)
    ELSE SplitFrom(Tail(s), Append(piece, Head(s)))

Split(s) == SplitFrom(s, <<>>)

\* [p.strip() for p in text.split(",") if p.strip()]
RECURSIVE StripNonEmpty(_)
StripNonEmpty(ps) ==
    IF ps = <<>> THEN <<>>
    ELSE IF Strip(Head(ps)) = <<>> THEN StripNonEmpty(Tail(ps))
    ELSE <<Strip(Head(ps))>> \o StripNonEmpty(Tail(ps))

AllDigits(s) == s # <<>> /\ \A i \in 1..Len(s) : s[i] \in Digits

RECURSIVE NumberOf(_)
NumberOf(s) ==
    IF s = <<>> THEN 0
    ELSE NumberOf(SubSeq(s, 1, Len(s) - 1)) * 10 + DigitValue(s[Len(s)])

HasSign(s) == s # <<>> /\ Head(s) \in {"+", "-"}
Unsigned(s) == IF HasSign(s) THEN Tail(s) ELSE s
Signed(s, n) == IF HasSign(s) /\ Head(s) = "-" THEN 0 - n ELSE n

\* a decimal float in lowest terms: no exponent above 0, no trailing zero below it
RECURSIVE Normal(_, _)
Normal(m, e) ==
    IF m = 0 THEN Dist(0, 0)
    ELSE IF e > 0 THEN Dist(m * (10 ^ e), 0)
    ELSE IF e < 0 /\ m % 10 = 0 THEN Normal(m \div 10, e + 1)
    ELSE Dist(m, e)

\* float(p) on [sign] digits [e [sign] digits]; anything else is a ValueError
ParseFloat(s) ==
    LET at == {i \in 1..Len(s) : s[i] = "e"}
        cut == IF at = {} THEN Len(s) + 1 ELSE CHOOSE i \in at : \A j \in at : i <= j
        mant == SubSeq(s, 1, cut - 1)
        expo == SubSeq(s, cut + 1, Len(s))
    IN  IF ~AllDigits(Unsigned(mant)) THEN Raise("ValueError")
        ELSE IF at = {} THEN Ok(Normal(Signed(mant, NumberOf(Unsigned(mant))), 0))
        ELSE IF ~AllDigits(Unsigned(expo)) THEN Raise("ValueError")
        ELSE Ok(Normal(Signed(mant, NumberOf(Unsigned(mant))),
                       Signed(expo, NumberOf(Unsigned(expo)))))

-----------------------------------------------------------------------------
(* Inputs of the dashboard *)

\* entries a user may type between the commas
Entries ==
    { <<"5">>, <<"0">>, <<"-", "2">>, <<"1", "0">>, <<"a", "b">>, <<" ", "3">>,
      <<"1", "e", "-", "1", "0", "5">>, <<>> }

RECURSIVE Join(_)
Join(es) ==
    IF es = <<>> THEN <<>>
    ELSE IF Len(es) = 1 THEN es[1]
    ELSE es[1] \o <<",">> \o Join(Tail(es))

BatchTexts == UNION {{Join(es) : es \in [1..n -> Entries]} : n \in 0..MaxBatch}

\* the number_input has min_value=0.0
SidebarDistances == {Km(0), Km(5), Tiny}

-----------------------------------------------------------------------------
(* One run of the script app.py *)

InitApp ==
    /\ pc = "start"
    /\ call = NoCall
    /\ ret = Result("none", 0, 0, "", "", NoMap)
    /\ distance \in SidebarDistances
    /\ batch_text \in BatchTexts
    /\ clicked \in BOOLEAN
    /\ preds = NoMap
    /\ total_wqi = 0
    /\ rating = ""
    /\ parts = <<>>
    /\ idx = 0
    /\ lines = <<>>
    /\ shown = "nothing"

inputVars == <<call, ret, distance, batch_text, clicked>>

\* app.py:30  if distance > 0; nothing below it runs otherwise
Gate ==
    /\ pc = "start"
    /\ pc' = IF ~DistLeq(distance, 0) THEN "single" ELSE "done"
    /\ UNCHANGED <<preds, total_wqi, rating, parts, idx, lines, shown>>
    /\ UNCHANGED inputVars

\* app.py:35-163  the single-point column and the plots.  An exception of
\* predict_all_parameters is not caught and ends the run of the script.
SinglePoint ==
    /\ pc = "single"
    /\ LET r == predict_all_parameters(distance)
       IN  IF r.raised # "none"
           THEN /\ pc' = "crashed"
                /\ UNCHANGED <<preds, total_wqi, rating>>
           ELSE /\ preds' = r.val
                /\ total_wqi' = Aggregate(r.val)
                /\ rating' = get_wqi_rating(Aggregate(r.val))
                /\ pc' = "panel"
    /\ UNCHANGED <<parts, idx, lines, shown>>
    /\ UNCHANGED inputVars

\* app.py:168-174
BatchButton ==
    /\ pc = "panel"
    /\ IF ~clicked
       THEN /\ pc' = "done"
            /\ UNCHANGED <<parts, idx, lines, shown>>
       ELSE IF Strip(batch_text) = <<>>
       THEN /\ shown' = "info"
            /\ pc' = "done"
            /\ UNCHANGED <<parts, idx, lines>>
       ELSE /\ parts' = StripNonEmpty(Split(Strip(batch_text)))
            /\ lines' = <<>>
            /\ idx' = 1
            /\ pc' = "loop"
            /\ UNCHANGED shown
    /\ UNCHANGED <<preds, total_wqi, rating>>
    /\ UNCHANGED inputVars

\* app.py:175-186  one iteration of the loop over parts
BatchItem ==
    /\ pc = "loop"
    /\ idx <= Len(parts)
    /\ LET d == ParseFloat(parts[idx])
           r == predict_all_parameters(d.val)
       IN  IF d.raised # "none"
           THEN UNCHANGED <<preds, total_wqi, lines>>
           ELSE IF DistLeq(d.val, 0)
           THEN UNCHANGED <<preds, total_wqi, lines>>
           ELSE IF r.raised # "none"
           THEN UNCHANGED <<preds, total_wqi, lines>>
           ELSE /\ preds' = r.val
                /\ total_wqi' = Aggregate(r.val)
                /\ lines' = Append(lines, <<d.val, Aggregate(r.val),
                                            get_wqi_rating(Aggregate(r.val))>>)
    /\ idx' = idx + 1
    /\ UNCHANGED <<pc, rating, parts, shown>>
    /\ UNCHANGED inputVars

\* app.py:187
BatchTable ==
    /\ pc = "loop"
    /\ idx > Len(parts)
    /\ shown' = "table"
    /\ pc' = "done"
    /\ UNCHANGED <<preds, total_wqi, rating, parts, idx, lines>>
    /\ UNCHANGED inputVars

NextApp ==
    \/ Gate
    \/ SinglePoint
    \/ BatchButton
    \/ BatchItem
    \/ BatchTable

SpecApp == InitApp /\ [][NextApp]_vars

-----------------------------------------------------------------------------
(* Properties *)

IsCall(fn) == pc = "returned" /\ call.fn = fn

ScoredNames == {WeightedParams[i] : i \in 1..Len(WeightedParams)}
UniformScores(q) == [k \in ScoredNames |-> q]

\* C1: the WQI is the weighted sum of the six scores, the six weights sum to
\* 1.0, so six equal scores q give a WQI of q; six scores of 90 give 90.0,
\* rated "Good Quality".
C1_UniformScoreIsWqi ==
    pc = "aggregated" =>
        /\ total_wqi = WeightedSum(1, QValues(preds))
        /\ WeightedSum(1, UniformScores(1)) = WeightScale
        /\ WeightedSum(1, UniformScores(90 * QScale)) = 90 * WScale
        /\ get_wqi_rating(WeightedSum(1, UniformScores(90 * QScale))) = "Good Quality"
        /\ (\A k \in ScoredNames : QValues(preds)[k] = QValues(preds).DO)
              => total_wqi = QValues(preds).DO * WeightScale

SevenKeys == {"pH", "DO", "turbidity", "TDS", "iron", "phosphate", "nitrate"}

\* C2: predict_all_parameters raises ValueError and returns no mapping for every
\* distance <= 0, and for every distance > 0 it does not raise and returns a
\* mapping with exactly the seven parameter keys.
C2_PredictAllTotalOnPositive ==
    IsCall("predict_all_parameters") =>
        IF DistLeq(call.d, 0)
        THEN ret.raised = "ValueError" /\ ret.map = NoMap
        ELSE ret.raised = "none" /\ DOMAIN ret.map = SevenKeys

ElseBucket(parameter, value) ==
    CASE parameter = "DO" -> Max(0, Trunc(value * 10, ValScale)) * QScale
      [] parameter = "pH" -> 20 * QScale
      [] parameter = "nitrate" -> Max(0, 100 * QScale - 80 * value)
      [] parameter = "phosphate" -> Max(0, 100 * QScale - 400 * value)
      [] parameter = "turbidity" -> Max(0, 100 * QScale - 10 * value)
      [] parameter = "TDS" -> Max(0, 100 * QScale - value)

ClaimedBands ==
    { <<91, 100, "Excellent Quality">>, <<71, 90, "Good Quality">>,
      <<51, 70, "Moderate Quality">>, <<26, 50, "Poor Quality">>,
      <<0, 25, "Very Poor Quality">> }

BandsHolding(s) == {b \in ClaimedBands : b[1] * WScale <= s /\ s <= b[2] * WScale}

\* C5: get_wqi_rating does not raise; at most one band contains a score; the
\* result is the label of the band containing the score, both ends inclusive,
\* and "Undefined" for a score in a gap or outside [0,100].
C5_RatingBands ==
    IsCall("get_wqi_rating") =>
        /\ ret.raised = "none"
        /\ Cardinality(BandsHolding(call.value)) <= 1
        /\ \A b \in BandsHolding(call.value) : ret.text = b[3]
        /\ BandsHolding(call.value) = {} => ret.text = "Undefined"

\* the score 25.5, in the gap between "Very Poor" and "Poor"
C5_Witness ==
    /\ IsCall("get_wqi_rating")
    /\ call.value = 25 * WScale + WScale \div 2
    /\ ret.text = "Undefined"

\* C7: predict_do does not raise and returns 8.00 for distance <= 3 (0
\* included), 7.45 for 3 < distance <= 5 and 8.20 for distance > 5.
C7_DoStep ==
    IsCall("predict_do") =>
        /\ ret.raised = "none"
        /\ DistLeq(call.d, 3) => ret.val = 8000
        /\ (~DistLeq(call.d, 3) /\ DistLeq(call.d, 5)) => ret.val = 7450
        /\ ~DistLeq(call.d, 5) => ret.val = 8200

\* the boundary 5 belongs to the middle interval
C7_Witness ==
    /\ IsCall("predict_do")
    /\ call.d = Km(5)
    /\ ret.val = 7450

\* C8: assess_parameter_quality does not raise; with a standards entry it
\* returns "Within Standard" exactly when min <= value <= max (no max for DO)
\* and "Exceeds Standard" otherwise, iron included; without an entry it returns
\* "No Standard".
C8_Assess ==
    IsCall("assess_parameter_quality") =>
        LET parameter == call.parameter
            value == call.value
        IN  /\ ret.raised = "none"
            /\ parameter \in Parameters =>
                  LET std == standards[parameter]
                      within == /\ std.min <= value
                                /\ (parameter = "DO" \/ value <= std.max)
                  IN  /\ within => (ret.text = "Within Standard" /\ ret.symbol = "check")
                      /\ ~within => (ret.text = "Exceeds Standard" /\ ret.symbol = "cross")
            /\ parameter \notin Parameters => (ret.text = "No Standard" /\ ret.symbol = "-")

\* iron at exactly its maximum of 0.3
C8_Witness ==
    /\ IsCall("assess_parameter_quality")
    /\ call.parameter = "iron"
    /\ call.value = 300
    /\ ret.text = "Within Standard"

\* C9: for every mapping of predicted values the aggregated WQI lies in [0,100].
C9_WqiInRange ==
    pc = "aggregated" => (0 <= total_wqi /\ total_wqi <= 100 * WScale)

\* the best score every table allows at once
C9_Witness ==
    /\ pc = "aggregated"
    /\ \A k \in Pollutants : get_q_value(k, preds[k]) = 95 * QScale
    /\ total_wqi > 92 * WScale

\* C10: for nitrate, phosphate, turbidity and TDS the score never rises with
\* the value: a <= b implies score(b) <= score(a).
C10_Monotone ==
    IsCall("get_q_value_twice") => ret.val2 <= ret.val

\* the results expected of a batch: the entries that parse to a number > 0
RECURSIVE PositiveEntries(_)
PositiveEntries(ps) ==
    IF ps = <<>> THEN <<>>
    ELSE LET r == ParseFloat(Strip(Head(ps)))
         IN  IF r.raised = "none" /\ ~DistLeq(r.val, 0)
             THEN <<r.val>> \o PositiveEntries(Tail(ps))
             ELSE PositiveEntries(Tail(ps))

Chars_5_0_m2_10 == <<"5", ",", "0", ",", "-", "2", ",", "1", "0">>

\* C6: a triggered batch run processes every entry: the table holds exactly one
\* result, in input order, for each entry that parses to a number > 0, and the
\* other entries are skipped; "5,0,-2,10" gives two results, for 5 and 10.
C6_BatchResults ==
    (pc = "done" /\ shown = "table") =>
        /\ idx = Len(parts) + 1
        /\ [i \in 1..Len(lines) |-> lines[i][1]] = PositiveEntries(Split(batch_text))
        /\ batch_text = Chars_5_0_m2_10 =>
              [i \in 1..Len(lines) |-> lines[i][1]] = <<Km(5), Km(10)>>

====
